---- MODULE Spec2Model ----
(***************************************************************************)
(* A model of the xenon persona streamer:                                  *)
(*   src/main.py          split_into_sentence_chunks, AppController        *)
(*   src/llm_interface.py LLMInterface, LLMWorker                          *)
(*   src/ui_renderer.py   UIRenderer (chunk playback)                      *)
(*                                                                         *)
(* Spec       the controller, the worker and the playback engine           *)
(* SpecChunk  split_into_sentence_chunks on bounded texts                  *)
(* SpecTopic  LLMInterface.generate_topic on bounded backend behaviours    *)
(***************************************************************************)
EXTENDS Integers, Sequences, FiniteSets, TLC

\* ----- bounds of the model
MaxPersonas == 3
MaxChunks == 2
MaxLen == 7
MaxWords == 3
MaxRaw == 5

VARIABLES
    \* ---- process
    pc,               \* "init": ctrl.start is queued; "run"; "crashed": qFatal
    \* ---- AppController (src/main.py)
    persona_states,   \* list of PersonaState: [topic, text]
    idx,              \* _idx
    awaiting,         \* _awaiting: "none" | "topic" | "text"
    \* ---- LLMWorker invocations on the calling thread's stack
    calls,            \* Seq of [kind, phase]; the last one is executing
    \* ---- UIRenderer (src/ui_renderer.py)
    chunks,           \* self.chunks: Seq of [p, k] (chunk k of persona p)
    chunk_idx,        \* self._chunk_idx
    fade_in_running,  \* fade_in.state() == Running
    fade_in_conns,    \* slots connected to fade_in.finished, in order
    fade_out_running, \* fade_out.state() == Running
    fade_out_conns,   \* slots connected to fade_out.finished, in order
    timers,           \* pending QTimer.singleShot callbacks
    balloon,          \* the chunk the balloon shows: [p, k], or Blank
    status,           \* last message of the status bar
    \* ---- history (observations, never read by the program)
    sessions,         \* one record per play_chunks call
    reqs,             \* requests handed to the worker, in order
    visited,          \* values _idx took when a persona was made current
    notes,            \* notifications the worker emitted, in order
    doneCount         \* times "All personas complete" was shown

pipeVars == <<pc, persona_states, idx, awaiting, calls, chunks, chunk_idx,
              fade_in_running, fade_in_conns, fade_out_running, fade_out_conns,
              timers, balloon, status, sessions, reqs, visited, notes, doneCount>>

\* ---- split_into_sentence_chunks applied to one input (SpecChunk)
VARIABLES
    ch_pc,            \* "idle" | "call" | "done"
    ch_text,          \* the text, a sequence of characters
    ch_max,           \* max_words
    ch_out            \* the chunks returned, each with the branch that made it

chunkVars == <<ch_pc, ch_text, ch_max, ch_out>>

\* ---- LLMInterface.generate_topic applied to one backend behaviour (SpecTopic)
VARIABLES
    llm_pc,           \* "idle" | "call" | "done"
    llm_available,    \* LLMInterface._available
    llm_backend,      \* what self._llm(...) does: [raises, text]
    llm_raw,          \* what generate returned
    llm_failed,       \* an exception left generate
    llm_topic         \* what generate_topic returned

llmVars == <<llm_pc, llm_available, llm_backend, llm_raw, llm_failed, llm_topic>>

\* UIRenderer's balloon geometry (src/ui_renderer.py)
design_w == 1024
design_h == 768

VARIABLES
    rect_design,    \* self._rect_design: [x, y, w, h] in design space
    win,            \* the widget's current size: [w, h]
    overlay,        \* self.overlay.geometry(): [x, y, w, h]
    geo_applied     \* TRUE once a resize event or a design-rect call has run

geoVars == <<rect_design, win, overlay, geo_applied>>

vars == <<pipeVars, chunkVars, llmVars, geoVars>>

\* The program state as one record, so that handlers compose as the calls do.
World ==
    [pc |-> pc, persona_states |-> persona_states, idx |-> idx,
     awaiting |-> awaiting, calls |-> calls, chunks |-> chunks,
     chunk_idx |-> chunk_idx, fade_in_running |-> fade_in_running,
     fade_in_conns |-> fade_in_conns, fade_out_running |-> fade_out_running,
     fade_out_conns |-> fade_out_conns, timers |-> timers, balloon |-> balloon,
     status |-> status, sessions |-> sessions, reqs |-> reqs,
     visited |-> visited, notes |-> notes, doneCount |-> doneCount]

Install(w) ==
    /\ UNCHANGED <<chunkVars, llmVars, geoVars>>
    /\ pc' = w.pc
    /\ persona_states' = w.persona_states
    /\ idx' = w.idx
    /\ awaiting' = w.awaiting
    /\ calls' = w.calls
    /\ chunks' = w.chunks
    /\ chunk_idx' = w.chunk_idx
    /\ fade_in_running' = w.fade_in_running
    /\ fade_in_conns' = w.fade_in_conns
    /\ fade_out_running' = w.fade_out_running
    /\ fade_out_conns' = w.fade_out_conns
    /\ timers' = w.timers
    /\ balloon' = w.balloon
    /\ status' = w.status
    /\ sessions' = w.sessions
    /\ reqs' = w.reqs
    /\ visited' = w.visited
    /\ notes' = w.notes
    /\ doneCount' = w.doneCount

Blank == [p |-> -1, k |-> -1]

RemoveAt(s, i) == [j \in 1..(Len(s) - 1) |-> IF j < i THEN s[j] ELSE s[j + 1]]

Top(w) == w.calls[Len(w.calls)]
Pop(w) == [w EXCEPT !.calls = SubSeq(@, 1, Len(@) - 1)]
CurSession(w) == Len(w.sessions)

\* ---------------------------------------------------------------------------
\* AppController, part 1 (src/main.py)
\* ---------------------------------------------------------------------------

\* UIRenderer.show_status
ShowStatus(w, msg) == [w EXCEPT !.status = msg]

\* A direct Python call of a worker slot (main.py:152, main.py:161): the slot
\* body runs on the caller's stack, so the frame is pushed here and the main
\* loop dispatches nothing else until it has returned.
WorkerCall(w, kind) ==
    [w EXCEPT !.calls = Append(@, [kind |-> kind, phase |-> "called",
                                   id |-> Len(w.reqs) + 1]),
              !.reqs = Append(@, [persona |-> w.idx, kind |-> kind])]

\* AppController._next_persona
NextPersona(w) ==
    LET w1 == [w EXCEPT !.idx = @ + 1] IN
    IF w1.idx >= Len(w1.persona_states)
    THEN [ShowStatus(w1, "All personas complete") EXCEPT !.doneCount = @ + 1]
    ELSE WorkerCall(
           [ShowStatus(w1, "choosing topic") EXCEPT
               !.awaiting = "topic",
               !.visited = Append(@, w1.idx)],
           "topic")

\* AppController._on_chunk_finished
OnChunkFinished(w) == NextPersona(ShowStatus(w, "Persona finished"))

OnWorkerErrorNoAdvance(w) == ShowStatus(w, "Error")

OnWorkerErrorRetry(w) == WorkerCall(ShowStatus(w, "Error"), w.awaiting)

\* AppController._on_worker_error
OnWorkerError(w) == NextPersona(ShowStatus(w, "Error"))

\* ---------------------------------------------------------------------------
\* UIRenderer playback (src/ui_renderer.py)
\* ---------------------------------------------------------------------------
Slot(kind, sess, ci) == [k |-> kind, sess |-> sess, ci |-> ci]

Bump(w, sess, field) ==
    [w EXCEPT !.sessions[sess][field] = @ + 1]

\* chunkPlaybackFinished.emit(): the one connected slot (main.py:119) lives on
\* the emitting thread, so it runs inside the emit.
EmitFinished(w, sess) == OnChunkFinished(Bump(w, sess, "finished"))

\* fade_in.start(): start() of a running animation does nothing.
StartFadeIn(w, sess) ==
    IF w.fade_in_running THEN w
    ELSE [Bump(w, sess, "fadeIns") EXCEPT !.fade_in_running = TRUE]

\* fade_out.start()
StartFadeOutAnim(w, sess) ==
    IF w.fade_out_running THEN w
    ELSE [Bump(w, sess, "fadeOuts") EXCEPT !.fade_out_running = TRUE]

\* _swap, the closure of _show_next_chunk over chunk ci of session sess
Swap(w, sess, ci) ==
    StartFadeIn(
        [w EXCEPT !.balloon = w.sessions[sess].chunks[ci + 1],
                  !.sessions[sess].shown = Append(@, ci),
                  !.fade_in_conns = Append(@, Slot("hold", sess, ci))],
        sess)

\* _hold_then_fade, the closure of _show_next_chunk: disconnects itself and
\* arms the hold timer.
HoldThenFade(w, slot) ==
    LET i == CHOOSE j \in 1..Len(w.fade_in_conns) : w.fade_in_conns[j] = slot
    IN [Bump(w, slot.sess, "holds") EXCEPT
           !.fade_in_conns = RemoveAt(@, i),
           !.timers = Append(@, Slot("hold", slot.sess, slot.ci))]

\* UIRenderer._show_next_chunk
ShowNextChunk(w, initial) ==
    LET w1 == [w EXCEPT !.chunk_idx = @ + 1]
        sess == CurSession(w)
    IN IF w1.chunk_idx >= Len(w1.chunks)
       THEN EmitFinished(w1, sess)
       ELSE IF initial
            THEN Swap(w1, sess, w1.chunk_idx)
            ELSE StartFadeOutAnim(
                   [w1 EXCEPT !.fade_out_conns =
                        Append(@, Slot("swap", sess, w1.chunk_idx))],
                   sess)

\* UIRenderer._start_fade_out.  PyQt's signal.disconnect() with no argument
\* raises TypeError when the signal has no connection at all; the exception
\* leaves the timer callback before lines 176-177, and an exception that
\* leaves a callback invoked by Qt ends in qFatal(), which aborts the process.
StartFadeOut(w) ==
    IF w.fade_out_conns = <<>>
    THEN [w EXCEPT !.pc = "crashed"]
    ELSE StartFadeOutAnim(
           [w EXCEPT !.fade_out_conns = <<Slot("next", CurSession(w), 0)>>],
           CurSession(w))

\* play_chunks, lines 108-112: the new session
PlayReset(w, cs) ==
    [w EXCEPT !.chunks = cs,
              !.chunk_idx = -1,
              !.sessions = Append(@, [persona |-> w.idx, chunks |-> cs,
                                      fadeIns |-> 0, fadeOuts |-> 0,
                                      holds |-> 0, finished |-> 0,
                                      shown |-> <<>>])]

\* play_chunks, lines 114-115: the empty sequence
PlayEmpty(w) ==
    [w EXCEPT !.balloon = Blank,
              !.timers = Append(@, Slot("finished", CurSession(w), 0))]

PlayChunksNoReturn(w, cs) ==
    LET w1 == PlayReset(w, cs) IN
    IF cs = <<>> THEN ShowNextChunk(PlayEmpty(w1), TRUE)
    ELSE ShowNextChunk(w1, TRUE)

PlayChunksEmitsInline(w, cs) ==
    LET w1 == PlayReset(w, cs) IN
    IF cs = <<>>
    THEN EmitFinished([w1 EXCEPT !.balloon = Blank], CurSession(w1))
    ELSE ShowNextChunk(w1, TRUE)

PlayChunksAlwaysTimer(w, cs) ==
    LET w1 == PlayReset(w, cs) IN
    IF cs = <<>> THEN PlayEmpty(w1)
    ELSE ShowNextChunk([w1 EXCEPT !.timers =
                           Append(@, Slot("finished", CurSession(w1), 0))],
                       TRUE)

\* UIRenderer.play_chunks
PlayChunks(w, cs) ==
    LET w1 == PlayReset(w, cs) IN
    IF cs = <<>> THEN PlayEmpty(w1)
    ELSE ShowNextChunk(w1, TRUE)

\* ---------------------------------------------------------------------------
\* AppController, part 2 (src/main.py)
\* ---------------------------------------------------------------------------

\* The chunks split_into_sentence_chunks returns for persona p's monologue,
\* as many as the text gives.
ChunksOf(p, n) == [k \in 1..n |-> [p |-> p, k |-> k - 1]]

\* AppController._on_worker_generated; text.n is the number of chunks the
\* text splits into when it is played.
OnWorkerGenerated(w, text) ==
    IF w.awaiting = "topic"
    THEN WorkerCall(
           [ShowStatus(w, "generating monologue") EXCEPT
               !.persona_states[w.idx + 1].topic = "set",
               !.awaiting = "text"],
           "text")
    ELSE IF w.awaiting = "text"
    THEN [PlayChunks(
            [ShowStatus(w, "Displaying chunks") EXCEPT
                !.persona_states[w.idx + 1].text = "set"],
            ChunksOf(w.idx, text.n))
          EXCEPT !.awaiting = "none"]
    ELSE w

OnWorkerStatusAsGenerated(w, text) == OnWorkerGenerated(w, text)

\* worker.status is connected to ui.show_status (main.py:117)
OnWorkerStatus(w, text) == ShowStatus(w, text.msg)

\* ---------------------------------------------------------------------------
\* The steps of the program
\* ---------------------------------------------------------------------------
Init ==
    /\ pc = "init"
    /\ persona_states = <<>>
    /\ idx = -1
    /\ awaiting = "none"
    /\ calls = <<>>
    /\ chunks = <<>>
    /\ chunk_idx = -1
    /\ fade_in_running = FALSE
    /\ fade_in_conns = <<>>
    /\ fade_out_running = FALSE
    /\ fade_out_conns = <<>>
    /\ timers = <<>>
    /\ balloon = Blank
    /\ status = ""
    /\ sessions = <<>>
    /\ reqs = <<>>
    /\ visited = <<>>
    /\ notes = <<>>
    /\ doneCount = 0
    /\ ch_pc = "idle" /\ ch_text = <<>> /\ ch_max = 1 /\ ch_out = <<>>
    /\ llm_pc = "idle" /\ llm_available = FALSE
    /\ llm_backend = [raises |-> FALSE, text |-> <<>>]
    /\ llm_raw = <<>> /\ llm_failed = FALSE /\ llm_topic = <<>>
    /\ rect_design = [x |-> 80, y |-> 80, w |-> 864, h |-> 560]
    /\ win = [w |-> design_w, h |-> design_h]
    /\ overlay = [x |-> 0, y |-> 0, w |-> 100, h |-> 30]
    /\ geo_applied = FALSE

\* (UIRenderer.__init__: self.resize(design_w, design_h) at line 22 and
\* self._rect_design at line 86; the overlay is a child widget that has not
\* been given a geometry yet, which Qt creates as 100 x 30 at the origin.)

\* The main loop dispatches an event only when no handler is on the stack.
MainLoopIdle == pc = "run" /\ calls = <<>>

\* AppController.start with _prepare_personas: n personas are selected
\* (none when the configuration lists none).
Start ==
    /\ pc = "init"
    /\ \E n \in 0..MaxPersonas :
         Install(NextPersona(
            [ShowStatus(World, "App started") EXCEPT
                !.pc = "run",
                !.persona_states = [i \in 1..n |-> [topic |-> "", text |-> ""]]]))

Note(w, kind) == [w EXCEPT !.notes = Append(@, [req |-> Top(w).id, kind |-> kind])]

\* LLMWorker.gen_topic / generate, lines 99 and 108: status.emit
WorkerStatus ==
    /\ pc = "run" /\ calls # <<>> /\ Top(World).phase = "called"
    /\ Install(OnWorkerStatus(
          [Note(World, "status") EXCEPT !.calls[Len(calls)].phase = "running"],
          [msg |-> "Generating", n |-> 1]))

\* LLMWorker.gen_topic / generate, lines 100-101 and 109-110: the backend call
\* returns and generated.emit runs the controller's slot; a monologue splits
\* into n chunks.
WorkerGenerated ==
    /\ pc = "run" /\ calls # <<>> /\ Top(World).phase = "running"
    /\ \E n \in 0..MaxChunks :
         /\ Top(World).kind = "topic" => n = 1
         /\ Install(OnWorkerGenerated(Pop(Note(World, "generated")),
                                      [msg |-> "", n |-> n]))

WorkerErrorAfterGenerated ==
    /\ pc = "run" /\ calls # <<>> /\ Top(World).phase = "running"
    /\ Install(OnWorkerError(Pop(Note(Note(World, "generated"), "error"))))

\* LLMWorker.gen_topic / generate, lines 102-103 and 111-112: the backend call
\* raises and error.emit runs the controller's slot.
WorkerError ==
    /\ pc = "run" /\ calls # <<>> /\ Top(World).phase = "running"
    /\ Install(OnWorkerError(Pop(Note(World, "error"))))

RECURSIVE RunHoldSlots(_, _)
RunHoldSlots(w, slots) ==
    IF slots = <<>> THEN w
    ELSE RunHoldSlots(HoldThenFade(w, Head(slots)), Tail(slots))

\* fade_in reaches its end: fade_in.finished runs the connected slots in the
\* order of their connection.
FadeInFinished ==
    /\ MainLoopIdle /\ fade_in_running
    /\ Install(RunHoldSlots([World EXCEPT !.fade_in_running = FALSE],
                            fade_in_conns))

\* The hold timer of line 166 expires: _start_fade_out
HoldTimerFires ==
    /\ MainLoopIdle
    /\ \E i \in 1..Len(timers) :
         /\ timers[i].k = "hold"
         /\ Install(StartFadeOut([World EXCEPT !.timers = RemoveAt(@, i)]))

\* The timer of line 115 expires: chunkPlaybackFinished.emit
FinishedTimerFires ==
    /\ MainLoopIdle
    /\ \E i \in 1..Len(timers) :
         /\ timers[i].k = "finished"
         /\ Install(EmitFinished([World EXCEPT !.timers = RemoveAt(@, i)],
                                 timers[i].sess))

Next ==
    \/ Start
    \/ WorkerStatus
    \/ WorkerGenerated
    \/ WorkerError
    \/ FadeInFinished
    \/ HoldTimerFires
    \/ FinishedTimerFires

Spec == Init /\ [][Next]_vars

\* ---------------------------------------------------------------------------
\* Properties of the pipeline and the playback engine (under Spec)
\* ---------------------------------------------------------------------------
SessionIds == 1..Len(sessions)
NChunks(s) == Len(sessions[s].chunks)
UpTo(n) == [k \in 1..n |-> k - 1]

\* An animation runs or a hold timer is pending
PlaybackBusy ==
    \/ fade_in_running
    \/ fade_out_running
    \/ \E i \in 1..Len(timers) : timers[i].k = "hold"

\* Nothing is left to happen: the process is gone, or the main loop has no
\* handler on the stack, no timer and no animation.
AtRest ==
    \/ pc = "crashed"
    \/ pc = "run" /\ calls = <<>> /\ timers = <<>>
         /\ ~fade_in_running /\ ~fade_out_running

\* Terminal notifications of the worker
Answers == {i \in 1..Len(notes) : notes[i].kind \in {"generated", "error"}}

\* C1: a session of N >= 1 chunks displays the indices 0, 1, ... in order,
\* none skipped or repeated; it ends with 'finished', and by then N fade-ins
\* and N fade-outs were started and all of 0..N-1 were displayed.
C1_NCyclesThenFinished ==
    \A s \in SessionIds :
        NChunks(s) >= 1 =>
            /\ sessions[s].shown = UpTo(Len(sessions[s].shown))
            /\ (sessions[s].finished >= 1 \/ AtRest) =>
                  /\ sessions[s].finished >= 1
                  /\ sessions[s].fadeIns = NChunks(s)
                  /\ sessions[s].fadeOuts = NChunks(s)
                  /\ sessions[s].shown = UpTo(NChunks(s))

\* Something of session s is still to run
SessionPending(s) ==
    \/ \E i \in 1..Len(timers) : timers[i].sess = s
    \/ \E i \in 1..Len(fade_in_conns) : fade_in_conns[i].sess = s
    \/ \E i \in 1..Len(fade_out_conns) : fade_out_conns[i].sess = s
    \/ s = Len(sessions) /\ (fade_in_running \/ fade_out_running)

\* C2: every play_chunks call is answered by exactly one 'finished': never
\* two, one once nothing is left to happen, and after it nothing of the
\* session is still to run.
C2_FinishedExactlyOnce ==
    \A s \in SessionIds :
        /\ sessions[s].finished <= 1
        /\ AtRest => sessions[s].finished = 1
        /\ sessions[s].finished = 1 => ~SessionPending(s)

ErrorsOnly == \A i \in 1..Len(notes) : notes[i].kind # "generated"

\* C3: while every generation call has ended in an error, the personas are
\* made current in index order, each once, with one topic request each and
\* nothing else; and when nothing is left to happen the run is Done with
\* every selected persona visited.
C3_AllErrorsVisitEveryPersonaOnce ==
    ErrorsOnly =>
        /\ visited = UpTo(Len(visited))
        /\ reqs = [i \in 1..Len(visited) |-> [persona |-> i - 1, kind |-> "topic"]]
        /\ Len(visited) <= Len(persona_states)
        /\ doneCount <= 1
        /\ doneCount = 1 => Len(visited) = Len(persona_states)
        /\ AtRest =>
              /\ doneCount = 1
              /\ status = "All personas complete"
              /\ Len(visited) = Len(persona_states)

C3_Witness ==
    /\ ErrorsOnly
    /\ doneCount = 1
    /\ Len(persona_states) >= 2
    /\ Cardinality(Answers) = Len(persona_states)

\* C4: at most one request handed to the worker is unanswered.
C4_OneRequestInFlight ==
    /\ Len(calls) <= 1
    /\ Len(reqs) - Cardinality(Answers) <= 1
    /\ Len(reqs) - Cardinality(Answers) = Len(calls)

\* A request is in flight after a playback session has finished
C4_Witness ==
    /\ Len(calls) = 1
    /\ \E s \in SessionIds : sessions[s].finished = 1

\* C5: while a persona's generation is under way, no animation of a playback
\* session runs and no hold timer is pending; a persona gets at most one
\* session, in persona order; what is left to run belongs to the latest
\* session; and the balloon shows a chunk of the latest session's persona.
C5_OnePersonaOneSession ==
    /\ (calls # <<>> \/ awaiting # "none") => ~PlaybackBusy
    /\ \A s \in SessionIds : \A t \in SessionIds :
          s < t => sessions[s].persona < sessions[t].persona
    /\ \A s \in SessionIds : SessionPending(s) => s = Len(sessions)
    /\ \A s \in SessionIds : sessions[s].persona <= idx
    /\ (balloon # Blank /\ sessions # <<>>) =>
          balloon.p = sessions[Len(sessions)].persona

\* The turn of a later persona has begun after a playback session
C5_Witness ==
    /\ sessions # <<>>
    /\ calls # <<>>
    /\ idx > sessions[Len(sessions)].persona

\* C6: a session started with no chunk starts no fade and no hold timer, and
\* emits 'finished' once: not before its timer has expired, and then once.
C6_EmptySessionFinishesOnce ==
    \A s \in SessionIds :
        NChunks(s) = 0 =>
            /\ sessions[s].fadeIns = 0
            /\ sessions[s].fadeOuts = 0
            /\ sessions[s].holds = 0
            /\ sessions[s].shown = <<>>
            /\ IF \E i \in 1..Len(timers) :
                     timers[i].k = "finished" /\ timers[i].sess = s
               THEN sessions[s].finished = 0
               ELSE sessions[s].finished = 1

C6_Witness ==
    \E s \in SessionIds : NChunks(s) = 0 /\ sessions[s].finished = 1

\* The notifications of kind k the worker emitted for request r
NotesOf(r, k) == {i \in 1..Len(notes) : notes[i].req = r /\ notes[i].kind = k}

\* Request r is still being executed by the worker
InWorker(r) == \E i \in 1..Len(calls) : calls[i].id = r

\* C12: the worker emits only for requests it was handed; for each request
\* at most one status, and it comes first; never both 'generated' and
\* 'error'; and once the request has returned, exactly one of the two.
C12_OneTerminalNotification ==
    /\ \A i \in 1..Len(notes) : notes[i].req \in 1..Len(reqs)
    /\ \A r \in 1..Len(reqs) :
          LET st == NotesOf(r, "status")
              term == NotesOf(r, "generated") \cup NotesOf(r, "error")
          IN /\ Cardinality(st) <= 1
             /\ Cardinality(term) <= 1
             /\ \A i \in st : \A j \in term : i < j
             /\ ~InWorker(r) => Cardinality(term) = 1

\* One request ended in 'error' and another in 'generated', each after its
\* status
C12_Witness ==
    /\ \E r \in 1..Len(reqs) :
          NotesOf(r, "status") # {} /\ NotesOf(r, "error") # {}
    /\ \E r \in 1..Len(reqs) :
          NotesOf(r, "status") # {} /\ NotesOf(r, "generated") # {}
    /\ calls = <<>>

\* The 'error' notifications
Errors == {j \in 1..Len(notes) : notes[j].kind = "error"}

\* C14: once a request for persona i has ended in 'error', no later request
\* is for persona i, no playback session is for persona i, the process was
\* not aborted by it, and the controller has moved on: the very next request
\* is the topic request of persona i+1, or, if i was the last persona, the
\* run is Done and no further request was made.
C14_ErrorSkipsPersona ==
    \A j \in Errors :
        LET r == notes[j].req
            i == reqs[r].persona
        IN /\ \A r2 \in (r + 1)..Len(reqs) : reqs[r2].persona # i
           /\ \A s \in SessionIds : sessions[s].persona # i
           /\ idx > i
           /\ j = Len(notes) => pc = "run"
           /\ IF i + 1 < Len(persona_states)
              THEN /\ r < Len(reqs)
                   /\ reqs[r + 1] = [persona |-> i + 1, kind |-> "topic"]
                   /\ doneCount = 1 => idx = Len(persona_states)
              ELSE /\ r = Len(reqs)
                   /\ doneCount = 1
                   /\ status = "All personas complete"

\* A monologue request failed after its topic had arrived, and the next
\* persona's topic was then generated
C14_Witness ==
    \E j \in Errors :
        /\ reqs[notes[j].req].kind = "text"
        /\ \E k \in (j + 1)..Len(notes) :
              /\ notes[k].kind = "generated"
              /\ reqs[notes[k].req].persona = reqs[notes[j].req].persona + 1

\* How many 'finished' signals were emitted so far
RECURSIVE FinishedUpTo(_)
FinishedUpTo(s) ==
    IF s = 0 THEN 0 ELSE FinishedUpTo(s - 1) + sessions[s].finished

\* C15: in a run without errors the requests are topic, monologue, topic,
\* monologue, ... for the personas 0, 1, ... in order, the k-th session is
\* persona k's, the index has advanced once per 'finished'; and when nothing
\* is left to happen every selected persona has had its topic request, its
\* monologue request and its session, and the session has finished once.
C15_EveryPersonaFullTurn ==
    (Errors = {} /\ pc # "init") =>
        /\ \A r \in 1..Len(reqs) :
              reqs[r] = [persona |-> (r - 1) \div 2,
                         kind |-> IF r % 2 = 1 THEN "topic" ELSE "text"]
        /\ \A s \in SessionIds : sessions[s].persona = s - 1
        /\ idx = FinishedUpTo(Len(sessions))
        /\ AtRest =>
              /\ Len(reqs) = 2 * Len(persona_states)
              /\ Len(sessions) = Len(persona_states)
              /\ \A s \in SessionIds : sessions[s].finished = 1

\* A request was handed to the worker and its answer has not been delivered
RequestOutstanding == Len(reqs) > Cardinality(Answers)

\* C16: the backend call of a request runs in the worker context: while a
\* request is outstanding the main loop has no generation call on its
\* stack and is free to dispatch timer and animation callbacks.
C16_GenerationOffMainLoop ==
    (pc = "run" /\ RequestOutstanding) => MainLoopIdle

\* C17: a fade-in and a fade-out never run together; in every session the
\* fade-outs started never outnumber the holds, nor the holds the fade-ins,
\* nor the fade-ins the chunks displayed; and when nothing is left to happen
\* every displayed chunk has had its fade-in, its hold and its one fade-out.
C17_FadeInHoldFadeOut ==
    /\ ~(fade_in_running /\ fade_out_running)
    /\ \A s \in SessionIds :
          /\ sessions[s].fadeOuts <= sessions[s].holds
          /\ sessions[s].holds <= sessions[s].fadeIns
          /\ sessions[s].fadeIns <= Len(sessions[s].shown)
          /\ AtRest =>
                /\ sessions[s].fadeIns = Len(sessions[s].shown)
                /\ sessions[s].holds = Len(sessions[s].shown)
                /\ sessions[s].fadeOuts = Len(sessions[s].shown)

\* C19: 'finished' is never emitted inside play_chunks.  A step that emits
\* 'finished' for a session is a step of the main loop with no handler on
\* the stack, and the session was started by an earlier step (its
\* play_chunks call, and the _on_worker_generated around it, had returned).
C19_FinishedAfterPlayChunksReturns ==
    [][\A s \in 1..Len(sessions') :
          sessions'[s].finished >
              (IF s \in SessionIds THEN sessions[s].finished ELSE 0)
          => (s \in SessionIds /\ MainLoopIdle)]_vars

\* An empty session has finished, after which a session with chunks was
\* started and is showing its first chunk
C19_Witness ==
    /\ \E s \in SessionIds : NChunks(s) = 0 /\ sessions[s].finished = 1
    /\ \E s \in SessionIds : NChunks(s) > 0 /\ sessions[s].shown # <<>>
    /\ awaiting = "none"

\* C20: the pipeline ends in Done.  When nothing is left to happen, 'All
\* personas complete' has been reported; it is reported once, with every
\* selected persona visited, no request outstanding, no timer pending and
\* no animation running (so nothing can start afterwards); and for the
\* empty selection no request is ever issued.
C20_ReachesDone ==
    /\ AtRest => (doneCount = 1 /\ status = "All personas complete")
    /\ doneCount >= 1 =>
          /\ doneCount = 1
          /\ idx = Len(persona_states)
          /\ Len(visited) = Len(persona_states)
          /\ ~RequestOutstanding /\ calls = <<>>
          /\ timers = <<>> /\ ~fade_in_running /\ ~fade_out_running
    /\ (pc # "init" /\ persona_states = <<>>) => (reqs = <<>> /\ doneCount = 1)

\* ---------------------------------------------------------------------------
\* split_into_sentence_chunks (src/main.py:25-64).  A text is a sequence of
\* one-character strings.
\* ---------------------------------------------------------------------------
Alphabet == {"a", ".", " ", "\n"}
IsSpace(c) == c \in {" ", "\n", "\t", "\r"}
IsTerminal(c) == c \in {".", "!", "?"}

\* The positions of s that hold no whitespace
NonSpace(s) == {i \in 1..Len(s) : ~IsSpace(s[i])}
MinOf(S) == CHOOSE i \in S : \A j \in S : i <= j
MaxOf(S) == CHOOSE i \in S : \A j \in S : j <= i

LStrip(s) ==
    IF NonSpace(s) = {} THEN <<>> ELSE SubSeq(s, MinOf(NonSpace(s)), Len(s))

RStrip(s) ==
    IF NonSpace(s) = {} THEN <<>> ELSE SubSeq(s, 1, MaxOf(NonSpace(s)))

\* str.strip()
Strip(s) == RStrip(LStrip(s))

\* re.sub(r"\s+", " ", s): every maximal run of whitespace becomes one space
\* (the first character of a run is kept, as a space; the others go)
CollapseWs(s) ==
    LET keep == SelectSeq([i \in 1..Len(s) |-> i],
                          LAMBDA i : ~(IsSpace(s[i]) /\ i > 1 /\ IsSpace(s[i - 1])))
    IN [j \in 1..Len(keep) |-> IF IsSpace(s[keep[j]]) THEN " " ELSE s[keep[j]]]

\* re.split(r"(?<=[.!?])\s+", s) from position i on, piece being the text
\* since the last match: a match is a maximal run of whitespace that starts
\* right after a terminal mark, and the pieces between matches are returned,
\* empty ones included.
RECURSIVE SplitFrom(_, _, _)
SplitFrom(s, i, piece) ==
    IF i > Len(s) THEN <<piece>>
    ELSE IF IsSpace(s[i]) /\ i > 1 /\ IsTerminal(s[i - 1])
    THEN LET rest == LStrip(SubSeq(s, i, Len(s)))
         IN <<piece>> \o SplitFrom(s, Len(s) - Len(rest) + 1, <<>>)
    ELSE SplitFrom(s, i + 1, Append(piece, s[i]))

SplitSentences(s) == SplitFrom(s, 1, <<>>)

\* str.split(): the maximal runs of non-whitespace
RECURSIVE WordsFrom(_, _)
WordsFrom(s, word) ==
    IF s = <<>> THEN (IF word = <<>> THEN <<>> ELSE <<word>>)
    ELSE IF IsSpace(Head(s))
    THEN (IF word = <<>> THEN <<>> ELSE <<word>>) \o WordsFrom(Tail(s), <<>>)
    ELSE WordsFrom(Tail(s), Append(word, Head(s)))

Words(s) == WordsFrom(s, <<>>)

\* " ".join(parts)
RECURSIVE JoinSp(_)
JoinSp(parts) ==
    IF parts = <<>> THEN <<>>
    ELSE IF Len(parts) = 1 THEN parts[1]
    ELSE parts[1] \o <<" ">> \o JoinSp(Tail(parts))

\* The loop state: chunks, cur (the sentences accumulated, with the index of
\* each in `sentences`), cur_words.
ChunkOf(text, frag, first, n) ==
    [text |-> text, frag |-> frag, sent |-> first, nsent |-> n]

FlushKeepCur(st) ==
    IF st.cur # <<>>
    THEN [st EXCEPT !.chunks = Append(@,
                       ChunkOf(Strip(JoinSp(st.cur)), FALSE, st.first,
                               Len(st.cur)))]
    ELSE st

\* flush(), lines 39-44
Flush(st) ==
    IF st.cur # <<>>
    THEN [chunks |-> Append(st.chunks,
                       ChunkOf(Strip(JoinSp(st.cur)), FALSE, st.first,
                               Len(st.cur))),
          cur |-> <<>>, first |-> 0, cur_words |-> 0]
    ELSE st

\* lines 53-54: the windows w[i:i+max_words] for i in range(0, len(w), max_words)
RECURSIVE HardSplit(_, _, _)
HardSplit(w, max_words, si) ==
    IF w = <<>> THEN <<>>
    ELSE IF Len(w) <= max_words THEN <<ChunkOf(JoinSp(w), TRUE, si, 1)>>
    ELSE <<ChunkOf(JoinSp(SubSeq(w, 1, max_words)), TRUE, si, 1)>>
         \o HardSplit(SubSeq(w, max_words + 1, Len(w)), max_words, si)

ChunkStepLooseFit(st, s, si, max_words) ==
    LET w == Words(s) IN
    IF w = <<>> THEN st
    ELSE IF Len(w) > max_words
    THEN LET f == Flush(st)
         IN [f EXCEPT !.chunks = @ \o HardSplit(w, max_words, si)]
    ELSE IF st.cur_words <= max_words
    THEN [st EXCEPT !.cur = Append(@, s),
                    !.first = IF st.cur = <<>> THEN si ELSE @,
                    !.cur_words = @ + Len(w)]
    ELSE LET f == Flush(st)
         IN [f EXCEPT !.cur = <<s>>, !.first = si, !.cur_words = Len(w)]

ChunkStepEarlyFlush(st, s, si, max_words) ==
    LET w == Words(s) IN
    IF w = <<>> THEN st
    ELSE IF Len(w) > max_words
    THEN LET f == Flush(st)
         IN [f EXCEPT !.chunks = @ \o HardSplit(w, max_words, si)]
    ELSE IF st.cur_words + Len(w) < max_words
    THEN [st EXCEPT !.cur = Append(@, s),
                    !.first = IF st.cur = <<>> THEN si ELSE @,
                    !.cur_words = @ + Len(w)]
    ELSE LET f == Flush(st)
         IN [f EXCEPT !.cur = <<s>>, !.first = si, !.cur_words = Len(w)]

ChunkStepNoFlush(st, s, si, max_words) ==
    LET w == Words(s) IN
    IF w = <<>> THEN st
    ELSE IF Len(w) > max_words
    THEN [st EXCEPT !.chunks = @ \o HardSplit(w, max_words, si)]
    ELSE IF st.cur_words + Len(w) <= max_words
    THEN [st EXCEPT !.cur = Append(@, s),
                    !.first = IF st.cur = <<>> THEN si ELSE @,
                    !.cur_words = @ + Len(w)]
    ELSE LET f == Flush(st)
         IN [f EXCEPT !.cur = <<s>>, !.first = si, !.cur_words = Len(w)]

\* The body of the loop of lines 46-62 for sentence number si
ChunkStep(st, s, si, max_words) ==
    LET w == Words(s) IN
    IF w = <<>> THEN st
    ELSE IF Len(w) > max_words
    THEN LET f == Flush(st)
         IN [f EXCEPT !.chunks = @ \o HardSplit(w, max_words, si)]
    ELSE IF st.cur_words + Len(w) <= max_words
    THEN [st EXCEPT !.cur = Append(@, s),
                    !.first = IF st.cur = <<>> THEN si ELSE @,
                    !.cur_words = @ + Len(w)]
    ELSE LET f == Flush(st)
         IN [f EXCEPT !.cur = <<s>>, !.first = si, !.cur_words = Len(w)]

RECURSIVE ChunkLoop(_, _, _, _)
ChunkLoop(st, sentences, si, max_words) ==
    IF si > Len(sentences) THEN st
    ELSE ChunkLoop(ChunkStep(st, sentences[si], si, max_words),
                   sentences, si + 1, max_words)

\* lines 32-34
Sentences(text) == SplitSentences(CollapseWs(Strip(text)))

\* split_into_sentence_chunks: the chunks, each with the branch that made it
\* (frag: a window of line 54) and the sentences it holds (sent, nsent)
split_into_sentence_chunks(text, max_words) ==
    IF text = <<>> THEN <<>>
    ELSE Flush(ChunkLoop([chunks |-> <<>>, cur |-> <<>>, first |-> 0,
                          cur_words |-> 0],
                         Sentences(text), 1, max_words)).chunks

ChunkTexts(cs) == [i \in 1..Len(cs) |-> cs[i].text]

TextsUpTo(n) == UNION {[1..k -> Alphabet] : k \in 0..n}

InitChunk ==
    /\ Init
    /\ ch_pc = "idle"

\* A caller picks the arguments
ChunkPick ==
    /\ ch_pc = "idle"
    /\ ch_text' \in TextsUpTo(MaxLen)
    /\ ch_max' \in 1..MaxWords
    /\ ch_pc' = "call"
    /\ UNCHANGED <<ch_out, pipeVars, llmVars, geoVars>>

\* The call returns
ChunkCall ==
    /\ ch_pc = "call"
    /\ ch_out' = split_into_sentence_chunks(ch_text, ch_max)
    /\ ch_pc' = "done"
    /\ UNCHANGED <<ch_text, ch_max, pipeVars, llmVars, geoVars>>

NextChunk == ChunkPick \/ ChunkCall

SpecChunk == InitChunk /\ [][NextChunk]_vars

\* ---------------------------------------------------------------------------
\* Properties of split_into_sentence_chunks (under SpecChunk)
\* ---------------------------------------------------------------------------
WordCount(s) == Len(Words(s))

\* C7: the chunks joined by single spaces are the words of the input, in
\* order, joined by single spaces: no word lost, duplicated or reordered.
C7_ChunksReconstructInput ==
    ch_pc = "done" =>
        JoinSp(ChunkTexts(ch_out)) = JoinSp(Words(ch_text))

\* A text that is not normalised and gives whole-sentence chunks and windows
C7_Witness ==
    /\ ch_pc = "done"
    /\ Len(ch_out) >= 3
    /\ ch_text # JoinSp(Words(ch_text))
    /\ \E i \in 1..Len(ch_out) : ch_out[i].frag
    /\ \E i \in 1..Len(ch_out) : ~ch_out[i].frag

\* C8: a chunk made of whole sentences has at most max_words words.
C8_WholeSentenceChunksFit ==
    ch_pc = "done" =>
        \A i \in 1..Len(ch_out) :
            ~ch_out[i].frag => WordCount(ch_out[i].text) <= ch_max

\* A chunk of two sentences that fills the budget, and another chunk after it
C8_Witness ==
    /\ ch_pc = "done"
    /\ Len(ch_out) >= 2
    /\ ~ch_out[1].frag
    /\ ch_out[1].nsent >= 2
    /\ WordCount(ch_out[1].text) = ch_max

\* The chunks made of windows of sentence number si
FragsOf(si) == {i \in 1..Len(ch_out) : ch_out[i].frag /\ ch_out[i].sent = si}

CeilDiv(a, b) == (a + b - 1) \div b

\* The k-th window of max_words words of w (k from 1)
Window(w, k, max_words) ==
    SubSeq(w, (k - 1) * max_words + 1,
           IF k * max_words < Len(w) THEN k * max_words ELSE Len(w))

\* C9: a sentence of W > max_words words is emitted as ceil(W / max_words)
\* consecutive chunks, the windows of max_words words in order (the last may
\* be shorter); no window shares a chunk with another sentence, whole-sentence
\* chunks hold only sentences within the budget, and the chunks follow the
\* order of the sentences (the accumulator is flushed before the windows).
C9_LongSentenceHardSplit ==
    ch_pc = "done" =>
        LET ss == IF ch_text = <<>> THEN <<>> ELSE Sentences(ch_text) IN
        /\ \A si \in 1..Len(ss) :
             LET w == Words(ss[si]) IN
             Len(w) > ch_max =>
                /\ Cardinality(FragsOf(si)) = CeilDiv(Len(w), ch_max)
                /\ \E lo \in 1..Len(ch_out) :
                     /\ FragsOf(si) = lo..(lo + CeilDiv(Len(w), ch_max) - 1)
                     /\ \A k \in 1..CeilDiv(Len(w), ch_max) :
                          /\ ch_out[lo + k - 1].text = JoinSp(Window(w, k, ch_max))
                          /\ k < CeilDiv(Len(w), ch_max) =>
                               WordCount(ch_out[lo + k - 1].text) = ch_max
        /\ \A i \in 1..Len(ch_out) :
             /\ ch_out[i].frag => WordCount(ss[ch_out[i].sent]) > ch_max
             /\ ~ch_out[i].frag =>
                  /\ \A si \in ch_out[i].sent..(ch_out[i].sent + ch_out[i].nsent - 1) :
                        WordCount(ss[si]) <= ch_max
                  /\ ch_out[i].text =
                        JoinSp(SubSeq(ss, ch_out[i].sent,
                                      ch_out[i].sent + ch_out[i].nsent - 1))
        /\ \A i \in 1..Len(ch_out) : \A j \in 1..Len(ch_out) :
             i < j => ch_out[i].sent + ch_out[i].nsent - 1 <= ch_out[j].sent

\* A sentence over the budget between two whole-sentence chunks
C9_Witness ==
    /\ ch_pc = "done"
    /\ \E i \in 2..(Len(ch_out) - 2) :
         /\ ~ch_out[i - 1].frag
         /\ ch_out[i].frag /\ ch_out[i + 1].frag
         /\ ch_out[i + 1].sent = ch_out[i].sent
         /\ ~ch_out[i + 2].frag

\* C18: packing is greedy.  When a whole-sentence chunk is directly followed
\* by a chunk that begins with a whole sentence within the budget, the words
\* of the first chunk plus the words of that sentence exceed max_words; and
\* a whole-sentence chunk that is followed by another chunk ends with a
\* sentence terminator.
C18_GreedyPacking ==
    ch_pc = "done" =>
        LET ss == IF ch_text = <<>> THEN <<>> ELSE Sentences(ch_text) IN
        \A i \in 1..(Len(ch_out) - 1) :
            /\ (~ch_out[i].frag /\ ~ch_out[i + 1].frag) =>
                   WordCount(ch_out[i].text) + WordCount(ss[ch_out[i + 1].sent])
                       > ch_max
            /\ ~ch_out[i].frag =>
                   /\ ch_out[i].text # <<>>
                   /\ IsTerminal(ch_out[i].text[Len(ch_out[i].text)])

\* A chunk of two sentences is closed because the third sentence, which the
\* budget could hold on its own, does not fit any more
C18_Witness ==
    /\ ch_pc = "done"
    /\ \E i \in 1..(Len(ch_out) - 1) :
          /\ ~ch_out[i].frag /\ ~ch_out[i + 1].frag
          /\ ch_out[i].nsent >= 2
          /\ WordCount(ch_out[i].text) < ch_max

\* ---------------------------------------------------------------------------
\* LLMInterface (src/llm_interface.py:46-84)
\* ---------------------------------------------------------------------------
TopicMaxLen == 64

Letters ==
    {"a", "b", "c", "d", "e", "f", "g", "h", "i", "j", "k", "l", "m", "n",
     "o", "p", "q", "r", "s", "t", "u", "v", "w", "x", "y", "z", "A", "B",
     "C", "D", "E", "F", "G", "H", "I", "J", "K", "L", "M", "N", "O", "P",
     "Q", "R", "S", "T", "U", "V", "W", "X", "Y", "Z"}
Digits == {"0", "1", "2", "3", "4", "5", "6", "7", "8", "9"}

\* \w of a str pattern: letters, digits and the underscore
IsWordChar(c) == c \in Letters \cup Digits \cup {"_"}

\* The filler paragraphs of _dummy_generate
Samples ==
    << <<"T", "h", "e", " ", "m", "i", "n", "d", " ", "w", "a", "n", "d", "e",
       "r", "s", " ", "l", "i", "k", "e", " ", "a", " ", "l", "o", "o", "s",
       "e", " ", "t", "h", "r", "e", "a", "d", ",", " ", "c", "a", "t", "c",
       "h", "i", "n", "g", " ", "o", "n", " ", "u", "n", "r", "e", "l", "a",
       "t", "e", "d", " ", "m", "e", "m", "o", "r", "i", "e", "s", " ", "u",
       "n", "t", "i", "l", " ", "a", " ", "s", "m", "a", "l", "l", " ", "s",
       "t", "o", "r", "y", " ", "f", "o", "r", "m", "s", ".">>,
       <<"I", " ", "t", "r", "a", "c", "e", " ", "t", "h", "e", " ", "e", "d",
       "g", "e", "s", " ", "o", "f", " ", "a", "n", " ", "i", "d", "e", "a",
       " ", "a", "n", "d", " ", "f", "i", "n", "d", " ", "i", "t", " ", "m",
       "i", "r", "r", "o", "r", "s", " ", "t", "h", "e", " ", "o", "r", "d",
       "i", "n", "a", "r", "y", ":", " ", "a", " ", "k", "e", "t", "t", "l",
       "e", ",", " ", "a", " ", "k", "e", "y", ",", " ", "a", " ", "c", "a",
       "t", " ", "i", "n", " ", "a", " ", "s", "u", "n", "b", "e", "a", "m",
       ".">>,
       <<"B", "e", "t", "w", "e", "e", "n", " ", "c", "a", "u", "s", "e", " ",
       "a", "n", "d", " ", "e", "f", "f", "e", "c", "t", " ", "t", "h", "e",
       "r", "e", " ", "i", "s", " ", "a", " ", "h", "a", "l", "l", "w", "a",
       "y", " ", "o", "f", " ", "c", "h", "o", "i", "c", "e", "s", ";", " ",
       "t", "o", "d", "a", "y", " ", "I", " ", "w", "a", "l", "k", " ", "i",
       "t", " ", "s", "l", "o", "w", "l", "y", ",", " ", "c", "o", "u", "n",
       "t", "i", "n", "g", " ", "t", "h", "e", " ", "d", "o", "o", "r", "s",
       ".">> >>

\* The built-in topics of generate_topic
DefaultTopics ==
    { <<"a", "m", "u", "s", "e", "m", "e", "n", "t", " ", "p", "a", "r", "k",
      "s">>,
      <<"r", "a", "i", "n", "y", " ", "s", "i", "d", "e", "w", "a", "l", "k",
      "s">>,
      <<"o", "l", "d", " ", "l", "i", "b", "r", "a", "r", "i", "e", "s">>,
      <<"l", "o", "s", "t", " ", "s", "a", "t", "e", "l", "l", "i", "t", "e",
      "s">> }

Perms3 == {p \in [1..3 -> 1..3] : \A i \in 1..3 : \E j \in 1..3 : p[j] = i}

\* _dummy_generate: "\n\n".join(random.sample(samples, k=3)); the generator is
\* seeded from the prompt, and the order it gives is one of the six.
DummyTexts ==
    { Samples[p[1]] \o <<"\n", "\n">> \o Samples[p[2]] \o <<"\n", "\n">>
        \o Samples[p[3]] : p \in Perms3 }

GenerateOutcomeNoCatch(available, backend) ==
    IF ~available THEN [failed |-> FALSE, texts |-> DummyTexts]
    ELSE IF backend.raises THEN [failed |-> TRUE, texts |-> {}]
    ELSE [failed |-> FALSE, texts |-> {Strip(backend.text)}]

\* LLMInterface.generate: whether an exception leaves it, and the texts it can
\* return.  Line 47-48: no backend; lines 49-57: the backend call and the
\* strip of its text; lines 58-60: anything raised in between is caught.
GenerateOutcome(available, backend) ==
    IF ~available THEN [failed |-> FALSE, texts |-> DummyTexts]
    ELSE IF backend.raises THEN [failed |-> FALSE, texts |-> DummyTexts]
    ELSE [failed |-> FALSE, texts |-> {Strip(backend.text)}]

\* LLMInterface.generate: the texts it can return
GenerateResults(available, backend) == GenerateOutcome(available, backend).texts

\* re.sub(r"[^\w\s\-]", "", line)
StripPunct(s) ==
    SelectSeq(s, LAMBDA c : IsWordChar(c) \/ IsSpace(c) \/ c = "-")

\* generate_topic, lines 69-70
SanitizeTopic(raw) == StripPunct(Strip(CollapseWs(raw)))

Truncate(s, n) == IF Len(s) <= n THEN s ELSE SubSeq(s, 1, n)

\* generate_topic, lines 71-73: the topics it can return for raw
TopicResults(raw) ==
    LET line == SanitizeTopic(raw) IN
    IF line # <<>> THEN {Truncate(line, TopicMaxLen)} ELSE DefaultTopics

RawAlphabet == {"a", ".", " ", "-", "_"}
RawTextsUpTo(n) == UNION {[1..k -> RawAlphabet] : k \in 0..n}

InitTopic ==
    /\ Init
    /\ llm_pc = "idle"

\* The backend of this run: loaded or not, and what a call of it does
LlmPick ==
    /\ llm_pc = "idle"
    /\ llm_available' \in BOOLEAN
    /\ \E r \in BOOLEAN, t \in RawTextsUpTo(MaxRaw) :
         /\ (r \/ ~llm_available') => t = <<>>
         /\ llm_backend' = [raises |-> r, text |-> t]
    /\ llm_pc' = "call"
    /\ UNCHANGED <<llm_raw, llm_failed, llm_topic, pipeVars, chunkVars, geoVars>>

\* LLMInterface.generate_topic
GenerateTopicCall ==
    /\ llm_pc = "call"
    /\ ~GenerateOutcome(llm_available, llm_backend).failed
    /\ \E raw \in GenerateResults(llm_available, llm_backend) :
         /\ llm_raw' = raw
         /\ llm_topic' \in TopicResults(raw)
    /\ llm_pc' = "done"
    /\ UNCHANGED <<llm_available, llm_backend, llm_failed, pipeVars, chunkVars, geoVars>>

\* LLMInterface.generate, called with any prompt
GenerateCall ==
    /\ llm_pc = "call"
    /\ LET o == GenerateOutcome(llm_available, llm_backend) IN
         /\ llm_failed' = o.failed
         /\ IF o.failed THEN llm_raw' = llm_raw ELSE llm_raw' \in o.texts
    /\ llm_pc' = "generated"
    /\ UNCHANGED <<llm_available, llm_backend, llm_topic, pipeVars, chunkVars, geoVars>>

NextTopic == LlmPick \/ GenerateTopicCall \/ GenerateCall

SpecTopic == InitTopic /\ [][NextTopic]_vars

\* ---------------------------------------------------------------------------
\* Properties of generate_topic (under SpecTopic)
\* ---------------------------------------------------------------------------
IsAlnum(c) == c \in Letters \cup Digits

\* C10: generate_topic returns a non-empty string of at most 64 characters,
\* of alphanumerics, whitespace and hyphens only, with no run of two or more
\* whitespace characters and no leading or trailing whitespace.
C10_TopicSanitized ==
    llm_pc = "done" =>
        /\ llm_topic # <<>>
        /\ Len(llm_topic) <= TopicMaxLen
        /\ \A i \in 1..Len(llm_topic) :
              IsAlnum(llm_topic[i]) \/ IsSpace(llm_topic[i]) \/ llm_topic[i] = "-"
        /\ llm_topic = Strip(CollapseWs(llm_topic))

\* ---------------------------------------------------------------------------
\* Properties of generate (under SpecTopic)
\* ---------------------------------------------------------------------------

\* C11, as claimed: no exception leaves generate and the text it returns is
\* never empty, whatever the backend does.
C11_GenerateNeverEmpty ==
    llm_pc = "generated" => (~llm_failed /\ llm_raw # <<>>)

\* C11, amended: no exception leaves generate; without a backend, or when the
\* backend call raises, the text is a filler text and not empty; when the
\* backend call returns, the text is the backend's text stripped, which is
\* empty exactly when the backend's text is empty or all whitespace.
C11_GenerateNeverFails ==
    llm_pc = "generated" =>
        /\ ~llm_failed
        /\ (~llm_available \/ llm_backend.raises) =>
              (llm_raw \in DummyTexts /\ llm_raw # <<>>)
        /\ (llm_available /\ ~llm_backend.raises) =>
              /\ llm_raw = Strip(llm_backend.text)
              /\ llm_raw = <<>> <=> NonSpace(llm_backend.text) = {}

\* The backend is loaded and its call raises: the filler text comes back
C11_Witness ==
    /\ llm_pc = "generated"
    /\ llm_available /\ llm_backend.raises
    /\ llm_raw # <<>>

\* ---------------------------------------------------------------------------
\* UIRenderer._apply_balloon_geometry (src/ui_renderer.py:120-132)
\*
\* The code computes  int((v / max(1, dim)) * cur)  in Python floats: an
\* IEEE-754 double division, a double multiplication, then truncation.  A
\* double is modelled as [m, e]: m its 53 mantissa bits, most significant
\* first and the first one 1, and e the exponent of the last bit, so that
\* the value is m * 2^e.  Zero has the empty mantissa.
\* ---------------------------------------------------------------------------
MantissaBits == 53

FloatZero == [m |-> <<>>, e |-> 0]

\* n, d scaled by powers of two until d <= n < 2d, with the exponent moved
RECURSIVE Normalise(_, _, _)
Normalise(n, d, e) ==
    IF n < d THEN Normalise(2 * n, d, e - 1)
    ELSE IF n >= 2 * d THEN Normalise(n, 2 * d, e + 1)
    ELSE [n |-> n, d |-> d, e |-> e]

\* The arithmetic below works on limbs of LimbBits bits (digits in base
\* LimbBase), so that no intermediate value leaves the 32-bit integers
LimbBits == 8
LimbBase == 256
Pow2 == <<1, 2, 4, 8, 16, 32, 64, 128>>

\* The LimbBits binary digits of a limb, most significant first
LimbToBits(g) == [j \in 1..LimbBits |-> (g \div Pow2[LimbBits + 1 - j]) % 2]

LimbsToBits(limbs) ==
    [i \in 1..(LimbBits * Len(limbs)) |->
        LimbToBits(limbs[((i - 1) \div LimbBits) + 1])[((i - 1) % LimbBits) + 1]]

\* k quotient limbs of the fraction r / d (r < d) by long division, and
\* what is left
RECURSIVE LongDiv(_, _, _)
LongDiv(r, d, k) ==
    IF k = 0 THEN [limbs |-> <<>>, rem |-> r]
    ELSE LET t == r * LimbBase
             rest == LongDiv(t % d, d, k - 1)
         IN [limbs |-> <<t \div d>> \o rest.limbs, rem |-> rest.rem]

\* bits + 1; carry = 1 when the mantissa overflowed to 1000...0
Increment(bits) ==
    LET zeros == {i \in 1..Len(bits) : bits[i] = 0} IN
    IF zeros = {}
    THEN [bits |-> [i \in 1..Len(bits) |-> IF i = 1 THEN 1 ELSE 0], carry |-> 1]
    ELSE LET k == MaxOf(zeros) IN
         [bits |-> [i \in 1..Len(bits) |->
                       IF i < k THEN bits[i] ELSE IF i = k THEN 1 ELSE 0],
          carry |-> 0]

\* Round-toward-zero instead of round-to-nearest-even
RoundChop(bits, sticky) ==
    [bits |-> SubSeq(bits, 1, MantissaBits), carry |-> 0]

\* IEEE round-to-nearest, ties-to-even, of a bit string with at least 53
\* bits down to 53; sticky says that non-zero bits follow the string
Round(bits, sticky) ==
    LET keep == SubSeq(bits, 1, MantissaBits)
        rb == IF Len(bits) > MantissaBits THEN bits[MantissaBits + 1] ELSE 0
        st == sticky \/ \E i \in (MantissaBits + 2)..Len(bits) : bits[i] = 1
    IN IF rb = 1 /\ (st \/ keep[MantissaBits] = 1)
       THEN Increment(keep)
       ELSE [bits |-> keep, carry |-> 0]

\* x / d for integers x >= 0, d > 0: Python's true division, correctly
\* rounded.  The quotient of the normalised operands is 1.fff...: 56 bits of
\* the fraction are enough to round to 53.
FloatDiv(x, d) ==
    IF x = 0 THEN FloatZero
    ELSE LET nm == Normalise(x, d, 0)
             q == LongDiv(nm.n - nm.d, nm.d, 7)
             r == Round(<<1>> \o LimbsToBits(q.limbs), q.rem # 0)
         IN [m |-> r.bits, e |-> nm.e - (MantissaBits - 1) + r.carry]

\* The binary digits of n, most significant first (none for 0)
RECURSIVE IntBits(_)
IntBits(n) == IF n = 0 THEN <<>> ELSE IntBits(n \div 2) \o <<n % 2>>

RECURSIVE BitsToInt(_)
BitsToInt(bits) ==
    IF bits = <<>> THEN 0
    ELSE 2 * BitsToInt(SubSeq(bits, 1, Len(bits) - 1)) + bits[Len(bits)]

\* A bit string as limbs, padded with zeros in front
BitsToLimbs(bits) ==
    LET n == (Len(bits) + LimbBits - 1) \div LimbBits
        pad == n * LimbBits - Len(bits)
        padded == [i \in 1..(n * LimbBits) |-> IF i <= pad THEN 0 ELSE bits[i - pad]]
    IN [j \in 1..n |->
           BitsToInt(SubSeq(padded, (j - 1) * LimbBits + 1, j * LimbBits))]

\* limbs * k + carry, as a bit string
RECURSIVE MulLimbs(_, _, _)
MulLimbs(limbs, k, carry) ==
    IF limbs = <<>> THEN IntBits(carry)
    ELSE LET t == limbs[Len(limbs)] * k + carry IN
         MulLimbs(SubSeq(limbs, 1, Len(limbs) - 1), k, t \div LimbBase)
             \o LimbToBits(t % LimbBase)

\* The exact product of a bit string (first bit 1) and an integer k > 0, as
\* a bit string with first bit 1
MulBits(bits, k) ==
    LET p == MulLimbs(BitsToLimbs(bits), k, 0) IN
    SubSeq(p, MinOf({i \in 1..Len(p) : p[i] = 1}), Len(p))

\* f * k for an integer k >= 0: the integer converts exactly, the product
\* is rounded once
FloatMulInt(f, k) ==
    IF f.m = <<>> \/ k = 0 THEN FloatZero
    ELSE LET p == MulBits(f.m, k)
             r == Round(p, FALSE)
         IN [m |-> r.bits, e |-> f.e + (Len(p) - MantissaBits) + r.carry]

\* int(f) for f >= 0: the bits above the binary point
FloatTrunc(f) ==
    IF f.m = <<>> THEN 0
    ELSE LET n == MantissaBits + f.e IN
         IF n <= 0 THEN 0 ELSE BitsToInt(SubSeq(f.m, 1, n))

\* lines 123-130: one coordinate
Scale(v, dim, cur) == FloatTrunc(FloatMulInt(FloatDiv(v, MaxOf({1, dim})), cur))

\* _apply_balloon_geometry: the overlay's new geometry
ApplyBalloonGeometry(rd, sz) ==
    [x |-> Scale(rd.x, design_w, sz.w), y |-> Scale(rd.y, design_h, sz.h),
     w |-> Scale(rd.w, design_w, sz.w), h |-> Scale(rd.h, design_h, sz.h)]

\* The window sizes and the design rectangles (the personas' image_rect) of
\* the runs examined
WinSizes ==
    {[w |-> 1024, h |-> 768], [w |-> 1152, h |-> 864],
     [w |-> 2048, h |-> 1536], [w |-> 512, h |-> 384]}

DesignRects ==
    [x : {0, 80, 104}, y : {0, 80, 104}, w : {864, 800}, h : {560, 520}]

InitGeom == Init

\* UIRenderer.resizeEvent (lines 144-151): the widget already has its new size
ResizeEvent ==
    /\ \E sz \in WinSizes :
         /\ win' = sz
         /\ overlay' = ApplyBalloonGeometry(rect_design, sz)
    /\ geo_applied' = TRUE
    /\ UNCHANGED <<rect_design, pipeVars, chunkVars, llmVars>>

\* UIRenderer.set_balloon_rect_design (lines 103-105)
SetBalloonRectDesign ==
    /\ \E r \in DesignRects :
         /\ rect_design' = r
         /\ overlay' = ApplyBalloonGeometry(r, win)
    /\ geo_applied' = TRUE
    /\ UNCHANGED <<win, pipeVars, chunkVars, llmVars>>

NextGeom == ResizeEvent \/ SetBalloonRectDesign

SpecGeom == InitGeom /\ [][NextGeom]_vars

\* The design rectangle mapped proportionally, in exact arithmetic:
\* floor(v * cur / dim) for each coordinate
ProportionalRect(rd, sz) ==
    [x |-> (rd.x * sz.w) \div design_w, y |-> (rd.y * sz.h) \div design_h,
     w |-> (rd.w * sz.w) \div design_w, h |-> (rd.h * sz.h) \div design_h]

GeomCurrent ==
    geo_applied =>
        /\ overlay = ApplyBalloonGeometry(rect_design, win)
        /\ LET e == ProportionalRect(rect_design, win) IN
             /\ overlay.x \in {e.x, e.x - 1} /\ overlay.y \in {e.y, e.y - 1}
             /\ overlay.w \in {e.w, e.w - 1} /\ overlay.h \in {e.h, e.h - 1}

====
